---- MODULE Spec2Model ----
(***************************************************************************)
(* A model of fff (src/main.go): the dispatch loop of main, the task that  *)
(* main launches for every input line, and the helpers the task calls.     *)
(*                                                                         *)
(* Strings and byte slices are sequences of one-character strings, so that *)
(* searching, trimming, formatting and joining are computed and not        *)
(* assumed.                                                                *)
(***************************************************************************)
EXTENDS Integers, Sequences, FiniteSets, TLC

(***************************************************************************)
(* Characters and strings                                                  *)
(***************************************************************************)
LowerCase ==
    <<"a", "b", "c", "d", "e", "f", "g", "h", "i", "j", "k", "l", "m",
      "n", "o", "p", "q", "r", "s", "t", "u", "v", "w", "x", "y", "z">>

UpperCase ==
    <<"A", "B", "C", "D", "E", "F", "G", "H", "I", "J", "K", "L", "M",
      "N", "O", "P", "Q", "R", "S", "T", "U", "V", "W", "X", "Y", "Z">>

DigitChars ==
    <<"0", "1", "2", "3", "4", "5", "6", "7", "8", "9">>

Range(s) == {s[i] : i \in 1..Len(s)}

Letters == Range(LowerCase) \cup Range(UpperCase)

Digits == Range(DigitChars)

IsLetter(c) == c \in Letters

IsDigit(c) == c \in Digits

\* F(v), with v evaluated once and F applied to its value
Bind(v, F(_)) == CHOOSE r \in {F(x) : x \in {v}} : TRUE

\* unicode.IsSpace restricted to the bytes the model's bodies carry
IsSpace(c) == c \in {" ", "\t", "\n", "\r"}

LowerChar(c) ==
    IF c \in Range(UpperCase)
    THEN LowerCase[CHOOSE i \in 1..Len(UpperCase) : UpperCase[i] = c]
    ELSE c

ToLower(s) == [i \in 1..Len(s) |-> LowerChar(s[i])]

HasPrefix(s, pre) ==
    /\ Len(pre) <= Len(s)
    /\ SubSeq(s, 1, Len(pre)) = pre

\* the sub-slice s[i:] of Go, with i counted from 0
From(s, i) == SubSeq(s, i + 1, Len(s))

\* the sub-slice s[:i] of Go
UpTo(s, i) == SubSeq(s, 1, i)

\* strings.Index / bytes.Index: the 0-based offset of the first occurrence, or -1
Index(s, sub) ==
    LET hits == {i \in 0..(Len(s) - Len(sub)) : SubSeq(s, i + 1, i + Len(sub)) = sub}
    IN  IF hits = {} THEN -1 ELSE CHOOSE i \in hits : \A j \in hits : i <= j

\* bytes.Contains / strings.Contains
Contains(s, sub) == Index(s, sub) >= 0

\* bytes.TrimSpace
TrimSpace(s) ==
    LET keep == {i \in 1..Len(s) : ~IsSpace(s[i])}
    IN  IF keep = {} THEN <<>>
        ELSE SubSeq(s, CHOOSE i \in keep : \A j \in keep : i <= j,
                       CHOOSE i \in keep : \A j \in keep : j <= i)

RECURSIVE Concat(_)
\* the concatenation of a sequence of strings
Concat(ss) == IF ss = <<>> THEN <<>> ELSE Head(ss) \o Concat(Tail(ss))

RECURSIVE Join(_, _)
\* strings.Join
Join(ss, sep) ==
    IF ss = <<>> THEN <<>>
    ELSE IF Len(ss) = 1 THEN ss[1]
    ELSE ss[1] \o sep \o Join(Tail(ss), sep)

RECURSIVE Itoa(_)
\* the %d verb of fmt on a non-negative int
Itoa(n) ==
    IF n < 10 THEN <<DigitChars[n + 1]>>
    ELSE Itoa(n \div 10) \o <<DigitChars[(n % 10) + 1]>>

\* strings.Split on a one-character separator: the pieces between the
\* occurrences of sep, one more than there are occurrences
Split(s, sep) ==
    Bind({i \in 1..Len(s) : s[i] = sep}, LAMBDA cuts :
        LET n == Cardinality(cuts)
            Cut(k) == IF k = 0 THEN 0
                      ELSE IF k > n THEN Len(s) + 1
                      ELSE CHOOSE i \in cuts : Cardinality({j \in cuts : j < i}) = k - 1
        IN  [k \in 1..(n + 1) |-> SubSeq(s, Cut(k - 1) + 1, Cut(k) - 1)])

(***************************************************************************)
(* net/url as the task uses it (main.go:134, 139, 201, 203).  The inputs   *)
(* of the model carry no percent sign, at sign or bracket, so no escape is  *)
(* decoded and no userinfo or IPv6 literal is split off.                   *)
(***************************************************************************)
NoURL ==
    [Scheme |-> <<>>, Opaque |-> <<>>, Host |-> <<>>, Path |-> <<>>,
     RawQuery |-> <<>>, Fragment |-> <<>>]

\* url.getScheme: the scheme and the rest, or the error "missing protocol scheme"
getScheme(rawURL) ==
    Bind({i \in 1..Len(rawURL) :
            /\ ~IsLetter(rawURL[i])
            /\ ~(i > 1 /\ (IsDigit(rawURL[i]) \/ rawURL[i] \in {"+", "-", "."}))},
         LAMBDA stops :
            IF stops = {} THEN [scheme |-> <<>>, rest |-> rawURL, err |-> ""]
            ELSE Bind(CHOOSE k \in stops : \A j \in stops : k <= j, LAMBDA i :
                    IF rawURL[i] # ":"
                    THEN [scheme |-> <<>>, rest |-> rawURL, err |-> ""]
                    ELSE IF i = 1
                    THEN [scheme |-> <<>>, rest |-> <<>>, err |-> "missing protocol scheme"]
                    ELSE [scheme |-> UpTo(rawURL, i - 1), rest |-> From(rawURL, i),
                          err |-> ""]))

\* url.parse: [err, url]; err = "" is Go's nil error
parse(rawURL, viaRequest) ==
    LET Fail(e) == [err |-> e, url |-> NoURL]
        \* the authority and the path of rest0, the part before the query
        Rest(scheme, rest0, query) ==
            LET hasAuth == /\ (scheme # <<>> \/ (~viaRequest /\ ~HasPrefix(rest0, <<"/", "/", "/">>)))
                           /\ HasPrefix(rest0, <<"/", "/">>)
            IN  IF ~HasPrefix(rest0, <<"/">>) /\ scheme # <<>>
                THEN [err |-> "",
                      url |-> [NoURL EXCEPT !.Scheme = scheme, !.Opaque = rest0,
                                            !.RawQuery = query]]
                ELSE IF ~HasPrefix(rest0, <<"/">>) /\ viaRequest
                THEN Fail("invalid URI for request")
                ELSE IF ~HasPrefix(rest0, <<"/">>) /\ Contains(Split(rest0, "/")[1], <<":">>)
                THEN Fail("first path segment in URL cannot contain colon")
                ELSE IF ~hasAuth
                THEN [err |-> "",
                      url |-> [NoURL EXCEPT !.Scheme = scheme, !.Path = rest0,
                                            !.RawQuery = query]]
                ELSE Bind(From(rest0, 2), LAMBDA auth0 :
                     Bind(Index(auth0, <<"/">>), LAMBDA slash :
                        IF Contains(IF slash < 0 THEN auth0 ELSE UpTo(auth0, slash), <<" ">>)
                        THEN Fail("invalid character in host name")
                        ELSE [err |-> "",
                              url |-> [NoURL EXCEPT
                                         !.Scheme = scheme,
                                         !.Host = IF slash < 0 THEN auth0 ELSE UpTo(auth0, slash),
                                         !.Path = IF slash < 0 THEN <<>> ELSE From(auth0, slash),
                                         !.RawQuery = query]]))
    IN  IF \E i \in 1..Len(rawURL) : rawURL[i] \in {"\t", "\n", "\r"}
        THEN Fail("invalid control character in URL")
        ELSE IF rawURL = <<>> /\ viaRequest THEN Fail("empty url")
        ELSE IF rawURL = <<"*">> THEN [err |-> "", url |-> [NoURL EXCEPT !.Path = <<"*">>]]
        ELSE Bind(getScheme(rawURL), LAMBDA gs :
             IF gs.err # "" THEN Fail(gs.err)
             ELSE Bind(Index(gs.rest, <<"?">>), LAMBDA q :
                  Bind(IF q < 0 THEN gs.rest ELSE UpTo(gs.rest, q), LAMBDA rest0 :
                       Rest(ToLower(gs.scheme), rest0,
                            IF q < 0 THEN <<>> ELSE From(gs.rest, q + 1)))))

\* ParseRequestURI with the rules of url.Parse: a relative reference passes
ParseRequestURILax(rawURL) == parse(rawURL, FALSE)

\* url.ParseRequestURI (main.go:134)
ParseRequestURI(rawURL) == parse(rawURL, TRUE)

\* url.Parse, which http.NewRequest applies to rawURL (main.go:139)
Parse(rawURL) ==
    Bind(Index(rawURL, <<"#">>), LAMBDA h :
    Bind(IF h < 0 THEN rawURL ELSE UpTo(rawURL, h), LAMBDA u :
    Bind(parse(u, FALSE), LAMBDA r :
        IF r.err # "" THEN r
        ELSE [r EXCEPT !.url.Fragment = IF h < 0 THEN <<>> ELSE From(rawURL, h + 1)])))

\* (*url.URL).Hostname (main.go:203): the host without a port
Hostname(u) ==
    LET c == Index(u.Host, <<":">>)
    IN  IF c < 0 THEN u.Host ELSE UpTo(u.Host, c)

(***************************************************************************)
(* package path (main.go:203, 204)                                         *)
(***************************************************************************)
RECURSIVE CleanSegs(_, _, _)
\* the element stack path.Clean builds: "." and empty elements dropped, ".."
\* removing the element before it, or itself at the root
CleanSegs(segs, stack, rooted) ==
    IF segs = <<>> THEN stack
    ELSE LET s == Head(segs)
         IN  IF s = <<>> \/ s = <<".">> THEN CleanSegs(Tail(segs), stack, rooted)
             ELSE IF s = <<".", ".">>
             THEN IF stack # <<>> /\ stack[Len(stack)] # <<".", ".">>
                  THEN CleanSegs(Tail(segs), UpTo(stack, Len(stack) - 1), rooted)
                  ELSE IF rooted THEN CleanSegs(Tail(segs), stack, rooted)
                  ELSE CleanSegs(Tail(segs), Append(stack, s), rooted)
             ELSE CleanSegs(Tail(segs), Append(stack, s), rooted)

\* path.Clean
Clean(p) ==
    Bind(HasPrefix(p, <<"/">>), LAMBDA rooted :
    Bind(Split(p, "/"), LAMBDA segs :
    Bind((IF rooted THEN <<"/">> ELSE <<>>) \o Join(CleanSegs(segs, <<>>, rooted), <<"/">>),
         LAMBDA out : IF out = <<>> THEN <<".">> ELSE out)))

\* PathJoin without path.Clean: the elements are only joined by "/"
PathJoinRaw(elems) == Join(SelectSeq(elems, LAMBDA e : e # <<>>), <<"/">>)

\* path.Join: the non-empty elements joined by "/", cleaned
PathJoin(elems) ==
    Bind(SelectSeq(elems, LAMBDA e : e # <<>>), LAMBDA ne :
        IF ne = <<>> THEN <<>> ELSE Bind(Join(ne, <<"/">>), LAMBDA joined : Clean(joined)))

\* path.Dir: everything up to the last slash, cleaned
Dir(p) ==
    Bind({i \in 1..Len(p) : p[i] = "/"}, LAMBDA slashes :
        IF slashes = {} THEN <<".">>
        ELSE Bind(UpTo(p, CHOOSE i \in slashes : \A j \in slashes : j <= i),
                  LAMBDA dir : Clean(dir)))

\* the directories os.MkdirAll(dir) creates when they are absent: dir and
\* every ancestor of it
Ancestors(dir) ==
    Bind(SelectSeq(Split(dir, "/"), LAMBDA e : e # <<>>), LAMBDA segs :
        {(IF HasPrefix(dir, <<"/">>) THEN <<"/">> ELSE <<>>) \o Join(UpTo(segs, k), <<"/">>) :
            k \in 1..Len(segs)})

(***************************************************************************)
(* crypto/sha1 and the %x verb (main.go:202, 203)                          *)
(***************************************************************************)
HexTable ==
    "\t" :> <<"0", "9">> @@ "\n" :> <<"0", "a">> @@ "\r" :> <<"0", "d">> @@
    " " :> <<"2", "0">> @@ "!" :> <<"2", "1">> @@ "\"" :> <<"2", "2">> @@
    "#" :> <<"2", "3">> @@ "$" :> <<"2", "4">> @@ "%" :> <<"2", "5">> @@
    "&" :> <<"2", "6">> @@ "'" :> <<"2", "7">> @@ "(" :> <<"2", "8">> @@
    ")" :> <<"2", "9">> @@ "*" :> <<"2", "a">> @@ "+" :> <<"2", "b">> @@
    "," :> <<"2", "c">> @@ "-" :> <<"2", "d">> @@ "." :> <<"2", "e">> @@
    "/" :> <<"2", "f">> @@ "0" :> <<"3", "0">> @@ "1" :> <<"3", "1">> @@
    "2" :> <<"3", "2">> @@ "3" :> <<"3", "3">> @@ "4" :> <<"3", "4">> @@
    "5" :> <<"3", "5">> @@ "6" :> <<"3", "6">> @@ "7" :> <<"3", "7">> @@
    "8" :> <<"3", "8">> @@ "9" :> <<"3", "9">> @@ ":" :> <<"3", "a">> @@
    ";" :> <<"3", "b">> @@ "<" :> <<"3", "c">> @@ "=" :> <<"3", "d">> @@
    ">" :> <<"3", "e">> @@ "?" :> <<"3", "f">> @@ "@" :> <<"4", "0">> @@
    "A" :> <<"4", "1">> @@ "B" :> <<"4", "2">> @@ "C" :> <<"4", "3">> @@
    "D" :> <<"4", "4">> @@ "E" :> <<"4", "5">> @@ "F" :> <<"4", "6">> @@
    "G" :> <<"4", "7">> @@ "H" :> <<"4", "8">> @@ "I" :> <<"4", "9">> @@
    "J" :> <<"4", "a">> @@ "K" :> <<"4", "b">> @@ "L" :> <<"4", "c">> @@
    "M" :> <<"4", "d">> @@ "N" :> <<"4", "e">> @@ "O" :> <<"4", "f">> @@
    "P" :> <<"5", "0">> @@ "Q" :> <<"5", "1">> @@ "R" :> <<"5", "2">> @@
    "S" :> <<"5", "3">> @@ "T" :> <<"5", "4">> @@ "U" :> <<"5", "5">> @@
    "V" :> <<"5", "6">> @@ "W" :> <<"5", "7">> @@ "X" :> <<"5", "8">> @@
    "Y" :> <<"5", "9">> @@ "Z" :> <<"5", "a">> @@ "[" :> <<"5", "b">> @@
    "\\" :> <<"5", "c">> @@ "]" :> <<"5", "d">> @@ "^" :> <<"5", "e">> @@
    "_" :> <<"5", "f">> @@ "a" :> <<"6", "1">> @@
    "b" :> <<"6", "2">> @@ "c" :> <<"6", "3">> @@ "d" :> <<"6", "4">> @@
    "e" :> <<"6", "5">> @@ "f" :> <<"6", "6">> @@ "g" :> <<"6", "7">> @@
    "h" :> <<"6", "8">> @@ "i" :> <<"6", "9">> @@ "j" :> <<"6", "a">> @@
    "k" :> <<"6", "b">> @@ "l" :> <<"6", "c">> @@ "m" :> <<"6", "d">> @@
    "n" :> <<"6", "e">> @@ "o" :> <<"6", "f">> @@ "p" :> <<"7", "0">> @@
    "q" :> <<"7", "1">> @@ "r" :> <<"7", "2">> @@ "s" :> <<"7", "3">> @@
    "t" :> <<"7", "4">> @@ "u" :> <<"7", "5">> @@ "v" :> <<"7", "6">> @@
    "w" :> <<"7", "7">> @@ "x" :> <<"7", "8">> @@ "y" :> <<"7", "9">> @@
    "z" :> <<"7", "a">> @@ "{" :> <<"7", "b">> @@ "|" :> <<"7", "c">> @@
    "}" :> <<"7", "d">> @@ "~" :> <<"7", "e">>

\* sha1.Sum taken as collision-free: the digest stands for the bytes hashed
Sum(data) == data

\* fmt.Sprintf("%x", hash): two hexadecimal digits for every byte
Hex(bytes) == Concat([i \in 1..Len(bytes) |-> HexTable[bytes[i]]])

(***************************************************************************)
(* The helper types of main.go                                             *)
(***************************************************************************)
\* headerArgs.String (main.go:295)
HeaderString(h) == Join(h, <<",", " ">>)

\* saveStatusArgs.Includes (main.go:311)
Includes(s, search) == \E i \in 1..Len(s) : s[i] = search

\* the pattern (?i)<html that main compiles (main.go:108), matched as at main.go:180
isHTML(body) == Contains(ToLower(body), <<"<", "h", "t", "m", "l">>)

\* the character class [a-zA-Z0-9/._-] that normalisePath complements (main.go:321)
PathSafe(c) == IsLetter(c) \/ IsDigit(c) \/ c \in {"/", ".", "_", "-"}

RECURSIVE DropUnsafe(_)
\* the input after the run of characters that one match of the pattern consumes
DropUnsafe(s) ==
    IF s = <<>> \/ PathSafe(Head(s)) THEN s ELSE DropUnsafe(Tail(s))

\* ReplaceAllUnsafe for the pattern without its "+": one "-" for every character
ReplaceEachUnsafe(s) == [i \in 1..Len(s) |-> IF PathSafe(s[i]) THEN s[i] ELSE "-"]

RECURSIVE ReplaceAllUnsafe(_)
\* regexp.ReplaceAllString(s, "-") for the pattern [^a-zA-Z0-9/._-]+ (main.go:322)
ReplaceAllUnsafe(s) ==
    IF s = <<>> THEN <<>>
    ELSE IF PathSafe(Head(s)) THEN <<Head(s)>> \o ReplaceAllUnsafe(Tail(s))
    ELSE <<"-">> \o ReplaceAllUnsafe(DropUnsafe(s))

\* normalisePath (main.go:320)
normalisePath(u) == ReplaceAllUnsafe(u.Path)

\* ShouldSave with the body tested for emptiness before it is trimmed
ShouldSaveUntrimmed(saveResponses, saveStatus, StatusCode, responseBody, ignoreHTMLFiles, ignoreEmpty, match) ==
    LET s1 == saveResponses \/ (Len(saveStatus) > 0 /\ Includes(saveStatus, StatusCode))
        s2 == IF ignoreHTMLFiles THEN s1 /\ ~isHTML(responseBody) ELSE s1
        s3 == IF ignoreEmpty THEN s2 /\ Len(responseBody) # 0 ELSE s2
    IN  IF match # <<>> /\ Contains(responseBody, match) THEN TRUE ELSE s3

\* ShouldSave with the match tested before the ignore flags are applied
ShouldSaveMatchFirst(saveResponses, saveStatus, StatusCode, responseBody, ignoreHTMLFiles, ignoreEmpty, match) ==
    LET s1 == \/ saveResponses
              \/ (Len(saveStatus) > 0 /\ Includes(saveStatus, StatusCode))
              \/ (match # <<>> /\ Contains(responseBody, match))
        s2 == IF ignoreHTMLFiles THEN s1 /\ ~isHTML(responseBody) ELSE s1
    IN  IF ignoreEmpty THEN s2 /\ Len(TrimSpace(responseBody)) # 0 ELSE s2

\* the save decision of a task (main.go:171-193)
ShouldSave(saveResponses, saveStatus, StatusCode, responseBody, ignoreHTMLFiles, ignoreEmpty, match) ==
    LET s1 == saveResponses \/ (Len(saveStatus) > 0 /\ Includes(saveStatus, StatusCode))
        s2 == IF ignoreHTMLFiles THEN s1 /\ ~isHTML(responseBody) ELSE s1
        s3 == IF ignoreEmpty THEN s2 /\ Len(TrimSpace(responseBody)) # 0 ELSE s2
    IN  IF match # <<>> /\ Contains(responseBody, match) THEN TRUE ELSE s3

(***************************************************************************)
(* net/http as the task uses it                                            *)
(***************************************************************************)
GET == <<"G", "E", "T">>

POST == <<"P", "O", "S", "T">>

\* a method is valid when it is a non-empty token (http.NewRequest, main.go:139)
validMethod(m) ==
    /\ Len(m) > 0
    /\ \A i \in 1..Len(m) : IsLetter(m[i]) \/ IsDigit(m[i]) \/ m[i] \in {"-", "_", ".", "+"}

UpperChar(c) ==
    IF c \in Range(LowerCase)
    THEN UpperCase[CHOOSE i \in 1..Len(LowerCase) : LowerCase[i] = c]
    ELSE c

\* textproto.CanonicalMIMEHeaderKey, which Header.Set applies to the name
CanonicalKey(k) ==
    IF \E i \in 1..Len(k) : ~(IsLetter(k[i]) \/ IsDigit(k[i]) \/ k[i] = "-") THEN k
    ELSE [i \in 1..Len(k) |->
            IF i = 1 \/ k[i - 1] = "-" THEN UpperChar(k[i]) ELSE LowerChar(k[i])]

\* Header.Set (main.go:152): the values of the canonical name are replaced by val
HeaderSet(hdr, key, val) ==
    LET k == CanonicalKey(key)
    IN  IF \E i \in 1..Len(hdr) : hdr[i].k = k
        THEN [i \in 1..Len(hdr) |-> IF hdr[i].k = k THEN [k |-> k, vs |-> <<val>>] ELSE hdr[i]]
        ELSE Append(hdr, [k |-> k, vs |-> <<val>>])

RECURSIVE AddHeaders(_, _)
\* the loop that adds the configured headers to the request (main.go:146-153)
AddHeaders(hdr, hs) ==
    IF hs = <<>> THEN hdr
    ELSE LET h == Head(hs)
             c == Index(h, <<":">>)
         IN  IF c < 0 THEN AddHeaders(hdr, Tail(hs))
             ELSE AddHeaders(HeaderSet(hdr, UpTo(h, c), From(h, c + 1)), Tail(hs))

NoReq == [Method |-> <<>>, URL |-> NoURL, Header |-> <<>>, Body |-> <<>>]

NoResp == [StatusCode |-> 0, Status |-> <<>>, Proto |-> <<>>, Header |-> <<>>, Body |-> <<>>]

\* the client with no CheckRedirect: http.Client follows redirects
CheckRedirectUnset == "nil"

\* the CheckRedirect function of the client (main.go:276-278)
CheckRedirect == "ErrUseLastResponse"

\* the statuses on which http.Client consults CheckRedirect, given a Location
IsRedirect(r) ==
    /\ r.StatusCode \in {301, 302, 303, 307, 308}
    /\ \E i \in 1..Len(r.Header) : r.Header[i].k = <<"L", "o", "c", "a", "t", "i", "o", "n">>

\* what the transport refuses before it sends anything (main.go:156)
RoundTripRefusal(req) ==
    IF req.URL.Scheme \notin {<<"h", "t", "t", "p">>, <<"h", "t", "t", "p", "s">>}
    THEN "unsupported protocol scheme"
    ELSE IF req.URL.Host = <<>> THEN "http: no Host in request URL"
    ELSE ""

(***************************************************************************)
(* The inputs the model draws from                                         *)
(***************************************************************************)
\* the most input lines of a run
MaxLines == 2

L_root == <<"h", "t", "t", "p", ":", "/", "/", "e", "x", "a", "m", "p", "l", "e", ".", "c", "o", "m", "/">>

L_nohost == <<"h", ".", "c", "o", "m">>

L_path == <<"/", "f", "o", "o">>

L_short == <<"h", "t", "t", "p", ":", "/", "/", "h", "/", "a">>

L_space == <<"h", "t", "t", "p", ":", "/", "/", "h", "/", "a", " ", "b", "!", "!", "c">>

L_dots == <<"h", "t", "t", "p", ":", "/", "/", "h", "/", ".", ".", "/", "x">>

L_up2 == <<"h", "t", "t", "p", ":", "/", "/", "h", "/", ".", ".", "/", ".", ".", "/", "x">>

L_colon == <<":", "a">>

L_empty == <<>>

\* the lines of the runs with several tasks
SomeLines == {L_short, L_nohost}

\* the lines of the runs with one task
AllLines == {L_root, L_nohost, L_path, L_space, L_dots, L_up2, L_colon, L_empty}

B_empty == <<>>

B_blank == <<" ", "\n">>

B_foo == <<"f", "o", "o">>

B_HTML == <<"<", "H", "T", "M", "L", ">">>

B_htmlfoo == <<"x", "<", "h", "t", "m", "l", ">", "f", "o", "o">>

Bodies == {B_empty, B_blank, B_foo, B_HTML, B_htmlfoo}

StatusText(code) ==
    CASE code = 200 -> <<"2", "0", "0", " ", "O", "K">>
      [] code = 301 -> <<"3", "0", "1", " ", "M", "o", "v", "e", "d">>
      [] code = 404 -> <<"4", "0", "4", " ", "N", "o", "t", " ", "F", "o", "u", "n", "d">>

H_none == <<>>

H_two ==
    <<[k |-> <<"S", "e", "r", "v", "e", "r">>, vs |-> <<<<"s">>>>],
      [k |-> <<"S", "e", "t", "-", "C", "o", "o", "k", "i", "e">>, vs |-> <<<<"a">>, <<"b">>>>]>>

H_loc == <<[k |-> <<"L", "o", "c", "a", "t", "i", "o", "n">>, vs |-> <<<<"/", "x">>>>]>>

Response(code, hdr, body) ==
    [StatusCode |-> code, Status |-> StatusText(code),
     Proto |-> <<"H", "T", "T", "P", "/", "1", ".", "1">>, Header |-> hdr, Body |-> body]

\* what the server may answer in the runs with one task
AllResponses ==
    {Response(code, hdr, body) : code \in {200, 404}, hdr \in {H_none, H_two}, body \in Bodies}
        \cup {Response(301, H_loc, body) : body \in Bodies}

\* one response of every status
FewResponses ==
    {Response(200, H_none, B_empty), Response(404, H_two, B_foo),
     Response(301, H_loc, B_htmlfoo)}

\* what the server may answer in the runs with several tasks
SomeResponses ==
    {Response(404, H_two, B_foo)}

\* the flags after flag.Parse (main.go:51-98), method apart
Flags(body, save, statuses, m, hs, noHTML, noEmpty) ==
    [requestBody |-> body, saveResponses |-> save, saveStatus |-> statuses, match |-> m,
     outputDir |-> <<"o", "u", "t">>, headers |-> hs,
     ignoreHTMLFiles |-> noHTML, ignoreEmpty |-> noEmpty]

HeaderLists == {<<>>, <<<<"A", ":", " ", "b">>, <<"A", ":", " ", "c">>>>}

SaveStatusLists == {<<>>, <<404>>, <<200, 301>>}

\* every setting of the flags the save decision reads, with and without a body
DecisionFlags ==
    {Flags(body, save, statuses, m, <<>>, noHTML, noEmpty) :
        body \in {<<>>, <<"x">>}, save \in BOOLEAN, statuses \in SaveStatusLists,
        m \in {<<>>, B_foo}, noHTML \in BOOLEAN, noEmpty \in BOOLEAN}

\* the settings of the flags the request and the artifact are built from
RequestFlags ==
    {Flags(body, save, <<>>, <<>>, hs, FALSE, FALSE) :
        body \in {<<>>, <<"x">>}, save \in BOOLEAN, hs \in HeaderLists}

\* the flags of the runs with several tasks: nothing set; a body and nothing
\* saved; everything saved, with a header and no body
SomeFlags ==
    {Flags(<<>>, FALSE, <<>>, <<>>, <<>>, FALSE, FALSE),
     Flags(<<"x">>, FALSE, <<>>, <<>>, <<>>, FALSE, FALSE),
     Flags(<<>>, TRUE, <<>>, <<>>, <<<<"A", ":", " ", "b">>>>, FALSE, FALSE)}

\* the flags of the runs that save the responses to requests with a body
BodySaveFlags ==
    {Flags(<<"x">>, TRUE, <<>>, <<>>, <<<<"A", ":", " ", "b">>>>, FALSE, FALSE)}

\* the longest URL path handed to normalisePath on its own
MaxPathLen == 4

\* the characters of those paths: of the class normalisePath keeps, and not
PathChars == {"/", "a", "-", " ", "!"}

\* "/a b!!c"
P_example == <<"/", "a", " ", "b", "!", "!", "c">>

Paths == UNION {[1..n -> PathChars] : n \in 0..MaxPathLen} \cup {P_example}

\* the values of -m: the default, another method, and one that is no token
Methods == {GET, <<"P", "U", "T">>, <<"B", " ", "D">>}

\* the byte that follows the constant "GET" in the memory of the build: one
\* that can be part of a method, or one that cannot
JunkBytes == {"Z", "?"}

(***************************************************************************)
(* The state                                                               *)
(***************************************************************************)
VARIABLES
    cfg,        \* the flags of main, read-only after flag.Parse
    responses,  \* the responses the server may give
    lines,      \* the lines of standard input
    method,     \* main's variable method, which every task shares
    storing,    \* the tasks that are in the middle of storing into method
    seen,       \* the words of method each task has found new
    junk,       \* the byte after the constant "GET" in the memory of this build
    pathIn,     \* a URL path handed to normalisePath on its own
    pathOut,    \* what normalisePath returned for it, once it has
    scanned,    \* how many lines sc.Scan has returned
    mainpc,     \* where main is
    rawURL,     \* the rawURL of the current iteration of main's loop
    wg,         \* the counter of the sync.WaitGroup
    pc,         \* where each task is
    loc,        \* the local variables of each task
    stdout,     \* the lines each task has printed on standard output
    stderr,     \* the lines each task has printed on standard error
    sent,       \* the requests each task has handed to the transport
    fsops,      \* the filesystem calls each task has made
    files,      \* the files on disk: path -> content
    dirs        \* the directories on disk

\* what no step of main or of a task changes
fixed == <<cfg, responses, lines, junk, pathIn, pathOut>>

vars ==
    <<cfg, responses, lines, junk, pathIn, pathOut, method, storing, seen, scanned, mainpc, rawURL, wg,
      pc, loc, stdout, stderr, sent, fsops, files, dirs>>

Tasks == 1..Len(lines)

NoLocals ==
    [rawURL |-> <<>>, req |-> NoReq, resp |-> NoResp, answered |-> NoResp,
     responseBody |-> <<>>, shouldSave |-> FALSE, normalisedPath |-> <<>>,
     keyMethod |-> <<>>, p |-> <<>>,
     bufMethod |-> <<>>, buf |-> <<>>]

\* the state when main reaches its loop (main.go:114), for inputs of the given sets
AtLoop(flagSet, methodSet, lineSeqs, responseSet) ==
    /\ cfg \in flagSet
    /\ method \in methodSet
    /\ lines \in lineSeqs
    /\ responses = responseSet
    /\ junk \in IF cfg.requestBody # <<>> /\ method = GET THEN JunkBytes ELSE {"?"}
    /\ storing = {}
    /\ seen = [t \in Tasks |-> {}]
    /\ scanned = 0
    /\ mainpc = "scan"
    /\ rawURL = <<>>
    /\ wg = 0
    /\ pc = [t \in Tasks |-> "unborn"]
    /\ loc = [t \in Tasks |-> NoLocals]
    /\ stdout = [t \in Tasks |-> <<>>]
    /\ stderr = [t \in Tasks |-> <<>>]
    /\ sent = [t \in Tasks |-> <<>>]
    /\ fsops = [t \in Tasks |-> <<>>]
    /\ files = <<>>
    /\ dirs = {}

InitWith(flagSet, methodSet, lineSeqs, responseSet) ==
    /\ AtLoop(flagSet, methodSet, lineSeqs, responseSet)
    /\ pathIn = <<>>
    /\ pathOut = <<>>

LineSeqs(set, n) == UNION {[1..k -> set] : k \in 1..n}

\* runs of up to MaxLines lines
Init == InitWith(SomeFlags, {GET}, LineSeqs(SomeLines, MaxLines), SomeResponses)

\* runs of MaxLines equal lines, with a body and everything saved
InitRace == InitWith(BodySaveFlags, {GET}, [1..MaxLines -> {L_short}], SomeResponses)

\* runs of one line: every setting of the decision flags against every
\* response, and every line and method against every setting of the request flags
InitTask ==
    \/ InitWith(DecisionFlags, {GET}, LineSeqs({L_root}, 1), AllResponses)
    \/ InitWith(RequestFlags, Methods, LineSeqs(AllLines, 1), FewResponses)

(***************************************************************************)
(* main's loop and the barrier (main.go:110-121, 253)                      *)
(***************************************************************************)
\* Scan in a loop that takes the next line only when no task is running
ScanGated ==
    /\ mainpc = "scan"
    /\ wg = 0
    /\ IF scanned < Len(lines)
       THEN /\ scanned' = scanned + 1
            /\ rawURL' = lines[scanned + 1]
            /\ mainpc' = "add"
       ELSE /\ mainpc' = "wait"
            /\ UNCHANGED <<scanned, rawURL>>
    /\ UNCHANGED <<fixed, method, storing, seen, wg, pc, loc,
                   stdout, stderr, sent, fsops, files, dirs>>

\* sc.Scan and sc.Text (main.go:114-116): the next line, or the end of the loop
Scan ==
    /\ mainpc = "scan"
    /\ IF scanned < Len(lines)
       THEN /\ scanned' = scanned + 1
            /\ rawURL' = lines[scanned + 1]
            /\ mainpc' = "add"
       ELSE /\ mainpc' = "wait"
            /\ UNCHANGED <<scanned, rawURL>>
    /\ UNCHANGED <<fixed, method, storing, seen, wg, pc, loc,
                   stdout, stderr, sent, fsops, files, dirs>>

\* wg.Add(1) (main.go:117)
WgAdd ==
    /\ mainpc = "add"
    /\ wg' = wg + 1
    /\ mainpc' = "sleep"
    /\ UNCHANGED <<fixed, method, storing, seen, scanned, rawURL, pc, loc,
                   stdout, stderr, sent, fsops, files, dirs>>

\* time.Sleep(delay) (main.go:118)
Sleep ==
    /\ mainpc = "sleep"
    /\ mainpc' = "go"
    /\ UNCHANGED <<fixed, method, storing, seen, scanned, rawURL, wg, pc, loc,
                   stdout, stderr, sent, fsops, files, dirs>>

\* the go statement with rawURL declared once for the whole loop: the task
\* reads the variable after main has scanned the next line into it
GoSharedURL ==
    /\ mainpc = "go"
    /\ pc' = [pc EXCEPT ![scanned] = "start"]
    /\ loc' = [loc EXCEPT ![scanned].rawURL =
                  IF scanned < Len(lines) THEN lines[scanned + 1] ELSE rawURL]
    /\ mainpc' = "scan"
    /\ UNCHANGED <<fixed, method, storing, seen, scanned, rawURL, wg,
                   stdout, stderr, sent, fsops, files, dirs>>

\* the go statement (main.go:120): the task of this iteration starts, bound to
\* this iteration's rawURL
Go ==
    /\ mainpc = "go"
    /\ pc' = [pc EXCEPT ![scanned] = "start"]
    /\ loc' = [loc EXCEPT ![scanned].rawURL = rawURL]
    /\ mainpc' = "scan"
    /\ UNCHANGED <<fixed, method, storing, seen, scanned, rawURL, wg,
                   stdout, stderr, sent, fsops, files, dirs>>

\* main returns at the end of input without waiting for the tasks
WgWaitNoBarrier ==
    /\ mainpc = "wait"
    /\ mainpc' = "exit"
    /\ UNCHANGED <<fixed, method, storing, seen, scanned, rawURL, wg, pc, loc,
                   stdout, stderr, sent, fsops, files, dirs>>

\* wg.Wait and the return of main (main.go:253-255): the process ends
WgWait ==
    /\ mainpc = "wait"
    /\ wg = 0
    /\ mainpc' = "exit"
    /\ UNCHANGED <<fixed, method, storing, seen, scanned, rawURL, wg, pc, loc,
                   stdout, stderr, sent, fsops, files, dirs>>

(***************************************************************************)
(* The shared variable method (main.go:68, 129, 130, 139, 202, 214).  The  *)
(* tasks read and write it with no synchronisation.  A Go string is two    *)
(* words, a pointer and a length, stored and loaded one after the other.   *)
(* While a task is storing "POST" over "GET", a task that reads method may *)
(* find either word old or new; a word it has once found new it finds new  *)
(* ever after (the memory is coherent word by word).                       *)
(***************************************************************************)
\* the string with the pointer of s and the length n: a prefix of s, or s and
\* the bytes that follow it in memory
WithLen(s, n) ==
    IF n <= Len(s) THEN UpTo(s, n)
    ELSE s \o [i \in 1..(n - Len(s)) |-> junk]

\* the string a load assembles when it finds the words of w new
Mixed(old, new, w) ==
    IF w = {"ptr", "len"} THEN new
    ELSE IF w = {"ptr"} THEN WithLen(new, Len(old))
    ELSE IF w = {"len"} THEN WithLen(old, Len(new))
    ELSE old

\* what a read of method by task t may return: the value, and the words the
\* task has found new
MethodReads(t) ==
    IF storing \ {t} = {} \/ method # GET
    THEN {[val |-> method, seen |-> seen[t]]}
    ELSE {[val |-> Mixed(method, POST, w), seen |-> w] :
             w \in {x \in SUBSET {"ptr", "len"} : seen[t] \subseteq x}}

(***************************************************************************)
(* The task (main.go:120-250)                                              *)
(***************************************************************************)
Running(t, at) == mainpc # "exit" /\ pc[t] = at

\* a diagnostic line that is the text of the Go error alone
DiagNoPrefix(prefix, cause) == <<cause>> \o <<"\n">>

\* a diagnostic line: the prefix, the text of the Go error as one element, "\n"
Diag(prefix, cause) == prefix \o <<cause>> \o <<"\n">>

\* the function returns and no wg.Done runs
ReturnNoDone(t) ==
    /\ UNCHANGED wg
    /\ pc' = [pc EXCEPT ![t] = "done"]

\* the function returns: the deferred wg.Done runs (main.go:121)
Return(t) ==
    /\ wg' = wg - 1
    /\ pc' = [pc EXCEPT ![t] = "done"]

\* main.go:124-130: with a body, method is read and, when it is GET, the store
\* of "POST" into it begins
CheckBody(t) ==
    /\ Running(t, "start")
    /\ IF cfg.requestBody # <<>>
       THEN \E m \in MethodReads(t) :
                /\ seen' = [seen EXCEPT ![t] = m.seen]
                /\ IF m.val = GET
                   THEN /\ storing' = storing \cup {t}
                        /\ pc' = [pc EXCEPT ![t] = "store"]
                   ELSE /\ pc' = [pc EXCEPT ![t] = "build"]
                        /\ UNCHANGED storing
       ELSE /\ pc' = [pc EXCEPT ![t] = "build"]
            /\ UNCHANGED <<storing, seen>>
    /\ UNCHANGED <<fixed, method, scanned, mainpc, rawURL, wg, loc,
                   stdout, stderr, sent, fsops, files, dirs>>

\* main.go:130: the store of "POST" into method is complete; from now on every
\* load finds both words new, and what a task found before no longer matters
StoreMethod(t) ==
    /\ Running(t, "store")
    /\ method' = POST
    /\ storing' = storing \ {t}
    /\ seen' = [u \in Tasks |-> {}]
    /\ pc' = [pc EXCEPT ![t] = "build"]
    /\ UNCHANGED <<fixed, scanned, mainpc, rawURL, wg, loc,
                   stdout, stderr, sent, fsops, files, dirs>>

\* main.go:134-153: a line that url.ParseRequestURI rejects ends the task in
\* silence; otherwise http.NewRequest with the method read now, then the headers
NewRequest(t) ==
    /\ Running(t, "build")
    /\ IF ParseRequestURI(loc[t].rawURL).err # ""
       THEN /\ Return(t)
            /\ UNCHANGED <<seen, loc, stderr>>
       ELSE \E r \in MethodReads(t), u \in {Parse(loc[t].rawURL)} :
              LET m == r.val
              IN  /\ seen' = [seen EXCEPT ![t] = r.seen]
                  /\ IF ~validMethod(m) \/ u.err # ""
                     THEN /\ stderr' = [stderr EXCEPT ![t] = Append(@,
                                 Diag(<<"f", "a", "i", "l", "e", "d", " ", "t", "o", " ", "c",
                                        "r", "e", "a", "t", "e", " ", "r", "e", "q", "u", "e",
                                        "s", "t", ":", " ">>,
                                      IF ~validMethod(m) THEN "net/http: invalid method"
                                      ELSE u.err))]
                          /\ Return(t)
                          /\ UNCHANGED loc
                     ELSE /\ loc' = [loc EXCEPT ![t].req =
                                       [Method |-> m, URL |-> u.url,
                                        Header |-> AddHeaders(<<>>, cfg.headers),
                                        Body |-> cfg.requestBody]]
                          /\ pc' = [pc EXCEPT ![t] = "do"]
                          /\ UNCHANGED <<stderr, wg>>
    /\ UNCHANGED <<fixed, method, storing, scanned, mainpc, rawURL,
                   stdout, sent, fsops, files, dirs>>

\* the request http.Client sends after a redirect it follows: to the Location
Redirected(req, r) ==
    LET i == CHOOSE j \in 1..Len(r.Header) : r.Header[j].k = <<"L", "o", "c", "a", "t", "i", "o", "n">>
    IN  [req EXCEPT !.URL.Path = r.Header[i].vs[1]]

\* main.go:156-160: client.Do.  The transport refuses the request, or fails,
\* or the server answers; the client asks CheckRedirect before it follows a
\* redirect (main.go:276-284)
Do(t) ==
    /\ Running(t, "do")
    /\ LET req == loc[t].req
           Failed(cause) ==
               /\ stderr' = [stderr EXCEPT ![t] = Append(@,
                      Diag(<<"r", "e", "q", "u", "e", "s", "t", " ", "f", "a", "i", "l", "e",
                             "d", ":", " ">>, cause))]
               /\ Return(t)
               /\ UNCHANGED loc
       IN  IF RoundTripRefusal(req) # ""
           THEN Failed(RoundTripRefusal(req)) /\ UNCHANGED sent
           ELSE \/ /\ Failed("transport error")
                   /\ sent' = [sent EXCEPT ![t] = Append(@, req)]
                \/ \E r \in responses :
                     /\ pc' = [pc EXCEPT ![t] = "read"]
                     /\ UNCHANGED <<stderr, wg>>
                     /\ IF IsRedirect(r) /\ CheckRedirect = "nil"
                        THEN \E r2 \in responses :
                               /\ sent' = [sent EXCEPT ![t] = @ \o <<req, Redirected(req, r)>>]
                               /\ loc' = [loc EXCEPT ![t].resp = r2, ![t].answered = r]
                        ELSE /\ sent' = [sent EXCEPT ![t] = Append(@, req)]
                             /\ loc' = [loc EXCEPT ![t].resp = r, ![t].answered = r]
    /\ UNCHANGED <<fixed, method, storing, seen, scanned, mainpc, rawURL,
                   stdout, fsops, files, dirs>>

\* the summary with the separator of the line printed for a saved response
SummaryWithColon(url, StatusCode) == url \o <<":", " ">> \o Itoa(StatusCode) \o <<"\n">>

\* fmt.Printf("%s %d\n", rawURL, resp.StatusCode) (main.go:196)
Summary(url, StatusCode) == url \o <<" ">> \o Itoa(StatusCode) \o <<"\n">>

\* main.go:165-198: the body is read and the save decision taken; with nothing
\* to save the task prints "<rawURL> <status>" and returns
ReadBody(t) ==
    /\ Running(t, "read")
    /\ \/ /\ stderr' = [stderr EXCEPT ![t] = Append(@,
                 Diag(<<"f", "a", "i", "l", "e", "d", " ", "t", "o", " ", "r", "e", "a", "d",
                        " ", "b", "o", "d", "y", ":", " ">>, "read error"))]
          /\ Return(t)
          /\ UNCHANGED <<loc, stdout>>
       \/ LET save == ShouldSave(cfg.saveResponses, cfg.saveStatus, loc[t].resp.StatusCode,
                                 loc[t].resp.Body, cfg.ignoreHTMLFiles, cfg.ignoreEmpty,
                                 cfg.match)
          IN  /\ loc' = [loc EXCEPT ![t].responseBody = loc[t].resp.Body,
                                    ![t].shouldSave = save]
              /\ UNCHANGED stderr
              /\ IF save
                 THEN /\ pc' = [pc EXCEPT ![t] = "save"]
                      /\ UNCHANGED <<stdout, wg>>
                 ELSE /\ stdout' = [stdout EXCEPT ![t] = Append(@,
                             Summary(loc[t].rawURL, loc[t].resp.StatusCode))]
                      /\ Return(t)
    /\ UNCHANGED <<fixed, method, storing, seen, scanned, mainpc, rawURL,
                   sent, fsops, files, dirs>>

\* main.go:201-208: the path of the artifact, its key hashed from the method
\* read now, and os.MkdirAll of the directory of the path
MkdirAll(t) ==
    /\ Running(t, "save")
    /\ \E r \in MethodReads(t) :
       \E p \in {PathJoin(<<cfg.outputDir, Hostname(loc[t].req.URL),
                             normalisePath(loc[t].req.URL),
                             Hex(Sum(r.val \o loc[t].rawURL \o cfg.requestBody
                                       \o HeaderString(cfg.headers)))>>)} :
         LET m == r.val
         IN  /\ seen' = [seen EXCEPT ![t] = r.seen]
             /\ loc' = [loc EXCEPT ![t].normalisedPath = normalisePath(loc[t].req.URL),
                                   ![t].keyMethod = m, ![t].p = p]
             /\ \/ /\ dirs' = dirs \cup Ancestors(Dir(p))
                   /\ fsops' = [fsops EXCEPT ![t] = Append(@,
                          [op |-> "MkdirAll", path |-> Dir(p), ok |-> TRUE])]
                   /\ pc' = [pc EXCEPT ![t] = "serialize"]
                   /\ UNCHANGED <<stderr, wg>>
                \/ /\ fsops' = [fsops EXCEPT ![t] = Append(@,
                          [op |-> "MkdirAll", path |-> Dir(p), ok |-> FALSE])]
                   /\ stderr' = [stderr EXCEPT ![t] = Append(@,
                          Diag(<<"f", "a", "i", "l", "e", "d", " ", "t", "o", " ", "c", "r",
                                 "e", "a", "t", "e", " ", "d", "i", "r", ":", " ">>,
                               "mkdir error"))]
                   /\ Return(t)
                   /\ UNCHANGED dirs
    /\ UNCHANGED <<fixed, method, storing, scanned, mainpc, rawURL,
                   stdout, sent, files>>

\* the orders in which a range over a Go map of n keys may visit them
Orders(n) == {o \in [1..n -> 1..n] : \A i, j \in 1..n : o[i] = o[j] => i = j}

\* ArtifactText with the blank line after the request headers written by the
\* loop over them, so that it is missing when there is no header
ArtifactTextNoBlank(m, url, headers, requestBody, resp, order, responseBody) ==
    m \o <<" ">> \o url \o <<"\n", "\n">>
      \o Concat([i \in 1..Len(headers) |-> <<">", " ">> \o headers[i] \o <<"\n">>])
      \o (IF headers # <<>> THEN <<"\n">> ELSE <<>>)
      \o (IF requestBody # <<>> THEN requestBody \o <<"\n", "\n">> ELSE <<>>)
      \o <<"<", " ">> \o resp.Proto \o <<" ">> \o resp.Status \o <<"\n">>
      \o Concat([i \in 1..Len(order) |->
            Concat([j \in 1..Len(resp.Header[order[i]].vs) |->
                <<"<", " ">> \o resp.Header[order[i]].k \o <<":", " ">>
                    \o resp.Header[order[i]].vs[j] \o <<"\n">>])])
      \o <<"\r", "\n">>
      \o responseBody

\* the text of the artifact (main.go:211-239), for the method read at line 214
\* and the order in which the range over resp.Header visits the names
ArtifactText(m, url, headers, requestBody, resp, order, responseBody) ==
    m \o <<" ">> \o url \o <<"\n", "\n">>
      \o Concat([i \in 1..Len(headers) |-> <<">", " ">> \o headers[i] \o <<"\n">>])
      \o <<"\n">>
      \o (IF requestBody # <<>> THEN requestBody \o <<"\n", "\n">> ELSE <<>>)
      \o <<"<", " ">> \o resp.Proto \o <<" ">> \o resp.Status \o <<"\n">>
      \o Concat([i \in 1..Len(order) |->
            Concat([j \in 1..Len(resp.Header[order[i]].vs) |->
                <<"<", " ">> \o resp.Header[order[i]].k \o <<":", " ">>
                    \o resp.Header[order[i]].vs[j] \o <<"\n">>])])
      \o <<"\r", "\n">>
      \o responseBody

\* main.go:211-239: the artifact is serialised into buf
Serialize(t) ==
    /\ Running(t, "serialize")
    /\ \E r \in MethodReads(t), order \in Orders(Len(loc[t].resp.Header)) :
         /\ seen' = [seen EXCEPT ![t] = r.seen]
         /\ loc' = [loc EXCEPT
               ![t].bufMethod = r.val,
               ![t].buf = ArtifactText(r.val, loc[t].rawURL, cfg.headers, cfg.requestBody,
                                       loc[t].resp, order, loc[t].responseBody)]
    /\ pc' = [pc EXCEPT ![t] = "write"]
    /\ UNCHANGED <<fixed, method, storing, scanned, mainpc, rawURL, wg,
                   stdout, stderr, sent, fsops, files, dirs>>

\* WriteFile with no return after the diagnostic: the summary is printed also
\* when the file was not written
WriteFileNoReturn(t) ==
    /\ Running(t, "write")
    /\ stdout' = [stdout EXCEPT ![t] = Append(@,
           loc[t].p \o <<":", " ">> \o loc[t].rawURL \o <<" ">>
               \o Itoa(loc[t].resp.StatusCode) \o <<"\n">>)]
    /\ \/ /\ files' = (loc[t].p :> loc[t].buf) @@ files
          /\ fsops' = [fsops EXCEPT ![t] = Append(@,
                 [op |-> "WriteFile", path |-> loc[t].p, ok |-> TRUE])]
          /\ UNCHANGED stderr
       \/ /\ fsops' = [fsops EXCEPT ![t] = Append(@,
                 [op |-> "WriteFile", path |-> loc[t].p, ok |-> FALSE])]
          /\ stderr' = [stderr EXCEPT ![t] = Append(@,
                 Diag(<<"f", "a", "i", "l", "e", "d", " ", "t", "o", " ", "w", "r", "i", "t",
                        "e", " ", "f", "i", "l", "e", " ", "c", "o", "n", "t", "e", "n", "t",
                        "s", ":", " ">>, "write error"))]
          /\ UNCHANGED files
    /\ Return(t)
    /\ UNCHANGED <<fixed, method, storing, seen, scanned, mainpc, rawURL, loc,
                   sent, dirs>>

\* main.go:242-249: ioutil.WriteFile, which replaces what the path held, and
\* then the summary "<path>: <rawURL> <status>"
WriteFile(t) ==
    /\ Running(t, "write")
    /\ \/ /\ files' = (loc[t].p :> loc[t].buf) @@ files
          /\ fsops' = [fsops EXCEPT ![t] = Append(@,
                 [op |-> "WriteFile", path |-> loc[t].p, ok |-> TRUE])]
          /\ stdout' = [stdout EXCEPT ![t] = Append(@,
                 loc[t].p \o <<":", " ">> \o loc[t].rawURL \o <<" ">>
                     \o Itoa(loc[t].resp.StatusCode) \o <<"\n">>)]
          /\ UNCHANGED stderr
       \/ /\ fsops' = [fsops EXCEPT ![t] = Append(@,
                 [op |-> "WriteFile", path |-> loc[t].p, ok |-> FALSE])]
          /\ stderr' = [stderr EXCEPT ![t] = Append(@,
                 Diag(<<"f", "a", "i", "l", "e", "d", " ", "t", "o", " ", "w", "r", "i", "t",
                        "e", " ", "f", "i", "l", "e", " ", "c", "o", "n", "t", "e", "n", "t",
                        "s", ":", " ">>, "write error"))]
          /\ UNCHANGED <<files, stdout>>
    /\ Return(t)
    /\ UNCHANGED <<fixed, method, storing, seen, scanned, mainpc, rawURL, loc,
                   sent, dirs>>

Next ==
    \/ Scan
    \/ WgAdd
    \/ Sleep
    \/ Go
    \/ WgWait
    \/ \E t \in Tasks : CheckBody(t)
    \/ \E t \in Tasks : StoreMethod(t)
    \/ \E t \in Tasks : NewRequest(t)
    \/ \E t \in Tasks : Do(t)
    \/ \E t \in Tasks : ReadBody(t)
    \/ \E t \in Tasks : MkdirAll(t)
    \/ \E t \in Tasks : Serialize(t)
    \/ \E t \in Tasks : WriteFile(t)

Spec == Init /\ [][Next]_vars

SpecTask == InitTask /\ [][Next]_vars

\* the runs of Spec under a fair scheduler: while main or a task can take a
\* step, a step is taken
SpecLive == Init /\ [][Next]_vars /\ WF_vars(Next)

SpecRace == InitRace /\ [][Next]_vars

(***************************************************************************)
(* normalisePath on its own (main.go:320-323)                              *)
(***************************************************************************)
InitPath ==
    /\ AtLoop({Flags(<<>>, FALSE, <<>>, <<>>, <<>>, FALSE, FALSE)}, {GET}, {<<>>}, {})
    /\ pathIn \in Paths
    /\ pathOut = <<>>

\* the call normalisePath(u) for a URL whose path is pathIn
Normalise ==
    /\ pathOut = <<>>
    /\ pathOut' = <<normalisePath([NoURL EXCEPT !.Path = pathIn])>>
    /\ UNCHANGED <<cfg, responses, lines, junk, pathIn, method, storing, seen, scanned,
                   mainpc, rawURL, wg, pc, loc, stdout, stderr, sent, fsops, files, dirs>>

NextPath == Normalise

SpecPath == InitPath /\ [][NextPath]_vars

(***************************************************************************)
(* Properties                                                              *)
(***************************************************************************)
\* the task has read the response and taken its save decision
Decided(t) ==
    \/ pc[t] \in {"save", "serialize", "write"}
    \/ stdout[t] # <<>>
    \/ fsops[t] # <<>>

\* sub occurs in s as a contiguous run of bytes
Occurs(sub, s) ==
    \E i \in 1..(Len(s) - Len(sub) + 1) : \A j \in 1..Len(sub) : s[i + j - 1] = sub[j]

\* the body carries "<html" in any mix of upper and lower case
HasHTMLMarker(body) ==
    \E i \in 1..(Len(body) - 4) :
        /\ body[i] = "<"
        /\ body[i + 1] \in {"h", "H"}
        /\ body[i + 2] \in {"t", "T"}
        /\ body[i + 3] \in {"m", "M"}
        /\ body[i + 4] \in {"l", "L"}

\* the body has a byte that is not white space
HasVisibleByte(body) == \E i \in 1..Len(body) : body[i] \notin {" ", "\t", "\n", "\r"}

\* C1: when the match string is empty or does not occur in the body, the save
\* decision of a task is (save-all, or a non-empty save-status list that holds
\* the status) and (not ignore-html, or no "<html" in the body in any case) and
\* (not ignore-empty, or a body with a byte that is not white space), whatever
\* the request body, the line and the response headers are
C1_Decision ==
    \A t \in Tasks :
        (Decided(t) /\ (cfg.match = <<>> \/ ~Occurs(cfg.match, loc[t].resp.Body)))
        => loc[t].shouldSave =
             (/\ \/ cfg.saveResponses
                 \/ /\ cfg.saveStatus # <<>>
                    /\ \E i \in 1..Len(cfg.saveStatus) :
                         cfg.saveStatus[i] = loc[t].resp.StatusCode
              /\ ~cfg.ignoreHTMLFiles \/ ~HasHTMLMarker(loc[t].resp.Body)
              /\ ~cfg.ignoreEmpty \/ HasVisibleByte(loc[t].resp.Body))

\* a task decided not to save a body of white space only, which the status
\* alone would have saved
C1_Witness ==
    \E t \in Tasks :
        /\ Decided(t)
        /\ cfg.match # <<>> /\ ~Occurs(cfg.match, loc[t].resp.Body)
        /\ cfg.ignoreEmpty /\ ~cfg.saveResponses
        /\ loc[t].resp.StatusCode = 404 /\ cfg.saveStatus = <<404>>
        /\ loc[t].resp.Body = B_blank
        /\ ~loc[t].shouldSave

\* C2: when the match string is not empty and occurs in the body, the save
\* decision is true whatever ignore-html and ignore-empty are, also with save-all
\* off and the status outside the save-status list, and the task goes on to save
C2_MatchOverride ==
    \A t \in Tasks :
        (Decided(t) /\ cfg.match # <<>> /\ Occurs(cfg.match, loc[t].resp.Body))
        => /\ loc[t].shouldSave
           /\ pc[t] \in {"save", "serialize", "write"} \/ fsops[t] # <<>>

\* a task saves an HTML body that holds the match string although ignore-html
\* and ignore-empty are set and nothing else asks for saving
C2_Witness ==
    \E t \in Tasks :
        /\ Decided(t)
        /\ cfg.match = B_foo /\ loc[t].resp.Body = B_htmlfoo
        /\ cfg.ignoreHTMLFiles /\ cfg.ignoreEmpty
        /\ ~cfg.saveResponses /\ cfg.saveStatus = <<>>
        /\ loc[t].shouldSave
        /\ fsops[t] # <<>>

\* the tasks main has registered with the barrier: wg.Add precedes the go
\* statement of the same iteration
Registered == IF mainpc = "add" THEN scanned - 1 ELSE scanned

\* C3: the process does not pass the barrier and exit while a task dispatched
\* for an input line is short of its terminal state; a task is launched only
\* after it is registered, and every task that has returned, on whichever path,
\* has deregistered: the counter is the number of registered tasks still running
C3_Barrier ==
    /\ mainpc = "exit" => \A t \in Tasks : pc[t] = "done"
    /\ \A t \in Tasks : pc[t] # "unborn" => t <= Registered
    /\ wg = Registered - Cardinality({t \in Tasks : pc[t] = "done"})

\* the process has exited after two or more tasks, one that returned in
\* silence on a line that is no URL and one that printed its summary
C3_Witness ==
    /\ mainpc = "exit"
    /\ Len(lines) >= 2
    /\ \E t, u \in Tasks :
         /\ lines[t] = L_nohost /\ pc[t] = "done" /\ stdout[t] = <<>>
         /\ lines[u] = L_short /\ pc[u] = "done" /\ stdout[u] # <<>>

\* the line begins with a scheme and a colon: a letter, then letters, digits,
\* "+", "-" and ".", then ":"
HasSchemePrefix(l) ==
    \E i \in 2..Len(l) :
        /\ l[i] = ":"
        /\ l[1] \in Range(LowerCase) \cup Range(UpperCase)
        /\ \A j \in 2..(i - 1) :
             l[j] \in Range(LowerCase) \cup Range(UpperCase) \cup Range(DigitChars)
                        \cup {"+", "-", "."}

\* the lines of the model that url.ParseRequestURI rejects: the empty line,
\* and a line with no scheme that does not begin with a slash
RejectedLine(l) ==
    \/ l = <<>>
    \/ l[1] # "/" /\ l # <<"*">> /\ ~HasSchemePrefix(l)

\* the task of line t has printed nothing, sent nothing and touched no file
Silent(t) ==
    /\ stdout[t] = <<>>
    /\ stderr[t] = <<>>
    /\ sent[t] = <<>>
    /\ fsops[t] = <<>>

\* C4, as the claim has it: the task of a line that is not an absolute URL (a
\* URL with a scheme) prints nothing on standard output and on standard error,
\* sends no request and writes no file
C4_NotAbsoluteSilent ==
    \A t \in Tasks :
        (pc[t] # "unborn" /\ ~HasSchemePrefix(loc[t].rawURL)) => Silent(t) /\ files = <<>>

\* C4: the task of a line that url.ParseRequestURI rejects prints nothing on
\* standard output and on standard error, sends no request, writes no file, and
\* goes from the check of the line straight to its end, building no request
C4_RejectedSilent ==
    \A t \in Tasks :
        (pc[t] # "unborn" /\ RejectedLine(loc[t].rawURL))
        => /\ Silent(t)
           /\ files = <<>> /\ dirs = {}
           /\ pc[t] \in {"start", "store", "build", "done"}
           /\ loc[t].req = NoReq

\* the task of the line "h.com" has ended in silence
C4_Witness ==
    \E t \in Tasks :
        /\ loc[t].rawURL = L_nohost
        /\ pc[t] = "done"
        /\ Silent(t)

\* the task has written its artifact
Wrote(t) ==
    \E i \in 1..Len(fsops[t]) : fsops[t][i].op = "WriteFile" /\ fsops[t][i].ok

\* C5: two tasks of one run (one request body, one header list) with the same
\* method and rawURL that received the same response write the same bytes to
\* the same path, so that the file holds those bytes whichever write is last
C5_Idempotent ==
    \A t, u \in Tasks :
        (/\ Wrote(t) /\ Wrote(u)
         /\ loc[t].rawURL = loc[u].rawURL
         /\ loc[t].keyMethod = loc[u].keyMethod
         /\ loc[t].bufMethod = loc[u].bufMethod
         /\ loc[t].resp = loc[u].resp)
        => /\ loc[t].p = loc[u].p
           /\ loc[t].buf = loc[u].buf
           /\ files[loc[t].p] = loc[t].buf

\* C6: in a run with a request body and the method left at GET, every request
\* a task sends has the method POST, and the method in the key of the
\* artifact and on its first line is the method the task sent
C6_MethodConsistent ==
    cfg.requestBody # <<>> =>
        \A t \in Tasks :
            /\ \A i \in 1..Len(sent[t]) : sent[t][i].Method = POST
            /\ loc[t].keyMethod # <<>> => loc[t].keyMethod = loc[t].req.Method
            /\ loc[t].bufMethod # <<>> => loc[t].bufMethod = loc[t].req.Method

\* the characters of the class [a-zA-Z0-9/._-]
InClass(c) ==
    c \in Range(LowerCase) \cup Range(UpperCase) \cup Range(DigitChars) \cup {"/", ".", "_", "-"}

\* where the character at offset i of the path lands in the result: one place
\* for every character of the class up to i, and one for every run of other
\* characters that has begun up to i
Landing(s, i) ==
    Cardinality({j \in 1..i : InClass(s[j])})
        + Cardinality({j \in 1..i : ~InClass(s[j]) /\ (j = 1 \/ InClass(s[j - 1]))})

\* C7: normalisePath puts one "-" for every maximal run of characters outside
\* [a-zA-Z0-9/._-], keeps every other character, in place, and so returns only
\* characters of the class; "/a b!!c" becomes "/a-b-c"
C7_NormalisePath ==
    pathOut # <<>> =>
        LET s == pathIn
            o == pathOut[1]
        IN  /\ Len(o) = Landing(s, Len(s))
            /\ \A i \in 1..Len(s) :
                 o[Landing(s, i)] = IF InClass(s[i]) THEN s[i] ELSE "-"
            /\ \A k \in 1..Len(o) : InClass(o[k])
            /\ s = P_example => o = <<"/", "a", "-", "b", "-", "c">>

\* normalisePath has turned "/a b!!c" into "/a-b-c"
C7_Witness ==
    /\ pathIn = P_example
    /\ pathOut = <<<<"/", "a", "-", "b", "-", "c">>>>

\* the occurrences of the values of the response headers: name i, value j
HeaderValues(h) == UNION {{<<i, j>> : j \in 1..Len(h[i].vs)} : i \in 1..Len(h)}

\* C8: the artifact ends with CR LF and the response body; what precedes is,
\* line by line: "<METHOD> <rawURL>", a blank line, "> <header>" for every
\* configured header in order, a blank line also when there is no header, the
\* request body and a blank line exactly when a body is configured,
\* "< <proto> <status>", and one line "< Name: value" for every occurrence of a
\* response header value, the values of one name in the order of the response
C8_Artifact ==
    \A t \in Tasks :
        (pc[t] = "write" \/ Wrote(t)) =>
            LET b == loc[t].buf
                resp == loc[t].resp
                tailLen == Len(resp.Body) + 2
                L == Split(SubSeq(b, 1, Len(b) - tailLen), "\n")
                n == Len(cfg.headers)
                k == 3 + n + (IF cfg.requestBody # <<>> THEN 2 ELSE 0)
                hv == HeaderValues(resp.Header)
                m == Cardinality(hv)
            IN  /\ Len(b) >= tailLen
                /\ SubSeq(b, Len(b) - tailLen + 1, Len(b)) = <<"\r", "\n">> \o resp.Body
                /\ Len(L) = k + m + 2
                /\ L[Len(L)] = <<>>
                /\ L[1] = loc[t].req.Method \o <<" ">> \o loc[t].rawURL
                /\ L[2] = <<>>
                /\ \A i \in 1..n : L[2 + i] = <<">", " ">> \o cfg.headers[i]
                /\ L[3 + n] = <<>>
                /\ cfg.requestBody # <<>> => L[4 + n] = cfg.requestBody /\ L[5 + n] = <<>>
                /\ L[k + 1] = <<"<", " ">> \o resp.Proto \o <<" ">> \o resp.Status
                /\ \E f \in [hv -> (k + 2)..(k + m + 1)] :
                     /\ \A x, y \in hv : f[x] = f[y] => x = y
                     /\ \A x \in hv :
                          L[f[x]] = <<"<", " ">> \o resp.Header[x[1]].k \o <<":", " ">>
                                       \o resp.Header[x[1]].vs[x[2]]
                     /\ \A x, y \in hv : (x[1] = y[1] /\ x[2] < y[2]) => f[x] < f[y]

\* the artifact of a POST of "x" with two headers to http://example.com/,
\* answered 404 with a Server header, two Set-Cookie headers and the body "foo"
C8_Witness ==
    \E t \in Tasks :
        /\ Wrote(t)
        /\ loc[t].buf =
             <<"P", "O", "S", "T", " ", "h", "t", "t", "p", ":", "/", "/", "e", "x", "a",
               "m", "p", "l", "e", ".", "c", "o", "m", "/", "\n", "\n", ">", " ", "A",
               ":", " ", "b", "\n", ">", " ", "A", ":", " ", "c", "\n", "\n", "x", "\n",
               "\n", "<", " ", "H", "T", "T", "P", "/", "1", ".", "1", " ", "4", "0",
               "4", " ", "N", "o", "t", " ", "F", "o", "u", "n", "d", "\n", "<", " ",
               "S", "e", "r", "v", "e", "r", ":", " ", "s", "\n", "<", " ", "S", "e",
               "t", "-", "C", "o", "o", "k", "i", "e", ":", " ", "a", "\n", "<", " ",
               "S", "e", "t", "-", "C", "o", "o", "k", "i", "e", ":", " ", "b", "\n",
               "\r", "\n", "f", "o", "o">>

\* the decimal digits of the statuses the model's server answers with
CodeDigits(code) ==
    CASE code = 200 -> <<"2", "0", "0">>
      [] code = 301 -> <<"3", "0", "1">>
      [] code = 404 -> <<"4", "0", "4">>

\* C9: a task hands at most one request to the client; when the server answers
\* with a 3xx status, that response is the one whose status and body the save
\* decision sees and whose status the summary line reports
C9_NoRedirect ==
    \A t \in Tasks :
        /\ Len(sent[t]) <= 1
        /\ (loc[t].answered.StatusCode \in 300..399 /\ Decided(t))
           => /\ loc[t].resp = loc[t].answered
              /\ loc[t].responseBody = loc[t].answered.Body
              /\ (/\ ~cfg.saveResponses /\ cfg.match = <<>>
                  /\ ~cfg.ignoreHTMLFiles /\ ~cfg.ignoreEmpty)
                 => loc[t].shouldSave =
                      (\E i \in 1..Len(cfg.saveStatus) :
                          cfg.saveStatus[i] = loc[t].answered.StatusCode)
              /\ \A i \in 1..Len(stdout[t]) :
                   /\ Len(stdout[t][i]) >= 5
                   /\ SubSeq(stdout[t][i], Len(stdout[t][i]) - 4, Len(stdout[t][i]))
                        = <<" ">> \o CodeDigits(loc[t].answered.StatusCode) \o <<"\n">>

\* the server answered 301 with a Location header, and the task reported the
\* 301 after its one request
C9_Witness ==
    \E t \in Tasks :
        /\ loc[t].answered.StatusCode = 301
        /\ Len(sent[t]) = 1
        /\ stdout[t] = <<<<"h", "t", "t", "p", ":", "/", "/", "e", "x", "a", "m", "p", "l",
                        "e", ".", "c", "o", "m", "/", " ", "3", "0", "1", "\n">>>>

\* C10: a task whose save decision is false prints the one line
\* "<rawURL> <statusCode>" on standard output and nothing on standard error, and
\* creates no directory and writes no file; with no save flag, the answer 404
\* with an empty body to http://example.com/ gives "http://example.com/ 404"
C10_Reported ==
    \A t \in Tasks :
        (Decided(t) /\ ~loc[t].shouldSave)
        => /\ stdout[t] = <<loc[t].rawURL \o <<" ">> \o CodeDigits(loc[t].resp.StatusCode)
                              \o <<"\n">>>>
           /\ stderr[t] = <<>>
           /\ fsops[t] = <<>>
           /\ files = <<>> /\ dirs = {}
           /\ pc[t] = "done"
           /\ (/\ loc[t].rawURL = L_root
               /\ loc[t].resp.StatusCode = 404 /\ loc[t].resp.Body = <<>>
               /\ ~cfg.saveResponses /\ cfg.saveStatus = <<>> /\ cfg.match = <<>>)
              => stdout[t] = <<<<"h", "t", "t", "p", ":", "/", "/", "e", "x", "a", "m", "p",
                            "l", "e", ".", "c", "o", "m", "/", " ", "4", "0", "4", "\n">>>>

\* with no save flag, a 404 with an empty body to http://example.com/ was reported
C10_Witness ==
    \E t \in Tasks :
        /\ loc[t].rawURL = L_root
        /\ ~cfg.saveResponses /\ cfg.saveStatus = <<>> /\ cfg.match = <<>>
        /\ loc[t].resp.StatusCode = 404 /\ loc[t].resp.Body = <<>>
        /\ Decided(t) /\ ~loc[t].shouldSave
        /\ stdout[t] = <<<<"h", "t", "t", "p", ":", "/", "/", "e", "x", "a", "m", "p",
                            "l", "e", ".", "c", "o", "m", "/", " ", "4", "0", "4", "\n">>>>
        /\ fsops[t] = <<>>

\* the task of "http://example.com/" saves everything under the directory "out"
SavesRoot(t) ==
    /\ loc[t].rawURL = L_root
    /\ cfg.saveResponses
    /\ cfg.outputDir = <<"o", "u", "t">>
    /\ fsops[t] # <<>>

\* the hexadecimal digest in the path of the artifact of task t
Digest(t) ==
    Hex(loc[t].keyMethod \o loc[t].rawURL \o cfg.requestBody \o HeaderString(cfg.headers))

\* C11, as the claim has it: for "http://example.com/" with --save and the
\* output directory "out" the normalised path is empty and the artifact is at
\* "out/example.com//<digest>"
C11_DoubleSlash ==
    \A t \in Tasks :
        SavesRoot(t)
        => /\ loc[t].normalisedPath = <<>>
           /\ loc[t].p = <<"o", "u", "t", "/", "e", "x", "a", "m", "p", "l", "e", ".", "c", "o", "m", "/", "/">> \o Digest(t)

\* C11: for "http://example.com/" with --save and the output directory "out"
\* the normalised path is "/" and the artifact is at "out/example.com/<digest>",
\* with one slash before the digest; that path is the one MkdirAll takes the
\* directory of, WriteFile writes and the summary line reports
C11_RootPath ==
    \A t \in Tasks :
        SavesRoot(t)
        => /\ loc[t].normalisedPath = <<"/">>
           /\ loc[t].p = <<"o", "u", "t", "/", "e", "x", "a", "m", "p", "l", "e", ".", "c", "o", "m", "/">> \o Digest(t)
           /\ fsops[t][1].path = <<"o", "u", "t", "/", "e", "x", "a", "m", "p", "l", "e", ".", "c", "o", "m">>
           /\ \A i \in 1..Len(fsops[t]) :
                fsops[t][i].op = "WriteFile" => fsops[t][i].path = loc[t].p
           /\ \A i \in 1..Len(stdout[t]) :
                stdout[t][i] = loc[t].p \o <<":", " ">> \o L_root \o <<" ">>
                                  \o CodeDigits(loc[t].resp.StatusCode) \o <<"\n">>

\* the GET of "http://example.com/" with no header was saved and reported at
\* "out/example.com/" followed by the hexadecimal digits of its key
C11_Witness ==
    \E t \in Tasks :
        /\ SavesRoot(t)
        /\ Wrote(t)
        /\ cfg.headers = <<>> /\ cfg.requestBody = <<>>
        /\ loc[t].resp.StatusCode = 404
        /\ stdout[t] =
             <<<<"o", "u", "t", "/", "e", "x", "a", "m", "p", "l", "e", ".", "c", "o",
                 "m", "/", "4", "7", "4", "5", "5", "4", "6", "8", "7", "4", "7", "4",
                 "7", "0", "3", "a", "2", "f", "2", "f", "6", "5", "7", "8", "6", "1",
                 "6", "d", "7", "0", "6", "c", "6", "5", "2", "e", "6", "3", "6", "f",
                 "6", "d", "2", "f", ":", " ", "h", "t", "t", "p", ":", "/", "/", "e",
                 "x", "a", "m", "p", "l", "e", ".", "c", "o", "m", "/", " ", "4", "0",
                 "4", "\n">>>>

\* C12: under a fair scheduler, with every network and filesystem call
\* returning, the run completes: every task reaches its terminal state and main
\* passes the barrier and exits, however many of the tasks fail
C12_Completes == <>(mainpc = "exit" /\ \A t \in Tasks : pc[t] = "done")

\* the process has exited after a task that failed and a task that printed
\* its summary
C12_Witness ==
    /\ mainpc = "exit"
    /\ \E t, u \in Tasks :
         /\ stderr[t] # <<>> /\ stdout[t] = <<>> /\ pc[t] = "done"
         /\ stdout[u] # <<>> /\ stderr[u] = <<>> /\ pc[u] = "done"

\* the tasks main has launched
Launched == {t \in Tasks : pc[t] # "unborn"}

\* C13: the tasks launched are those of the lines read so far, one for each
\* line and in the order of the input (all of them but the one of the line main
\* is still dispatching); once the input is exhausted there are as many tasks
\* as lines; and the task of line i works on the text of line i: it holds that
\* text, requests it and reports it
C13_OnePerLine ==
    /\ Launched = 1..(IF mainpc \in {"add", "sleep", "go"} THEN scanned - 1 ELSE scanned)
    /\ mainpc \in {"wait", "exit"} => Cardinality(Launched) = Len(lines)
    /\ \A t \in Launched :
         /\ loc[t].rawURL = lines[t]
         /\ \A i \in 1..Len(sent[t]) :
              <<"h", "t", "t", "p", ":", "/", "/">> \o sent[t][i].URL.Host \o sent[t][i].URL.Path
                 = lines[t]
         /\ \A i \in 1..Len(stdout[t]) : Occurs(lines[t] \o <<" ">>, stdout[t][i])

\* the input "http://h/a", "h.com" is exhausted: the first task has reported
\* its line and the second has dropped its own
C13_Witness ==
    /\ mainpc = "exit"
    /\ Len(lines) >= 2
    /\ lines[1] = L_short /\ lines[2] = L_nohost
    /\ stdout[1] # <<>> /\ Occurs(L_short, stdout[1][1])
    /\ loc[2].rawURL = L_nohost /\ sent[2] = <<>>

\* the prefix of the diagnostic of the step at which a task that printed no
\* summary has stopped: before a request was built, before a response came,
\* before the decision, at the creation of the directory, at the write
FailurePrefix(t) ==
    IF loc[t].req = NoReq
    THEN <<"f", "a", "i", "l", "e", "d", " ", "t", "o", " ", "c", "r", "e", "a", "t",
           "e", " ", "r", "e", "q", "u", "e", "s", "t", ":", " ">>
    ELSE IF loc[t].resp = NoResp
    THEN <<"r", "e", "q", "u", "e", "s", "t", " ", "f", "a", "i", "l", "e", "d", ":",
           " ">>
    ELSE IF fsops[t] = <<>>
    THEN <<"f", "a", "i", "l", "e", "d", " ", "t", "o", " ", "r", "e", "a", "d", " ",
           "b", "o", "d", "y", ":", " ">>
    ELSE IF Len(fsops[t]) = 1
    THEN <<"f", "a", "i", "l", "e", "d", " ", "t", "o", " ", "c", "r", "e", "a", "t",
           "e", " ", "d", "i", "r", ":", " ">>
    ELSE <<"f", "a", "i", "l", "e", "d", " ", "t", "o", " ", "w", "r", "i", "t", "e",
           " ", "f", "i", "l", "e", " ", "c", "o", "n", "t", "e", "n", "t", "s", ":",
           " ">>

\* C14: a task that has ended has had one of four outcomes, which fixes its
\* output: silent, for a line url.ParseRequestURI rejects, with no line on
\* either stream; failed, with one diagnostic line that begins with the prefix
\* of the step that failed and no summary; reported, with one summary line and
\* no diagnostic; persisted, with one summary line, no diagnostic and the file
\* written.  No task prints two lines
C14_Outcomes ==
    \A t \in Tasks :
        pc[t] = "done" =>
            LET out == stdout[t]
                err == stderr[t]
                silent == out = <<>> /\ err = <<>>
                failed == /\ out = <<>> /\ Len(err) = 1
                          /\ HasPrefix(err[1], FailurePrefix(t))
                          /\ Len(err[1]) = Len(FailurePrefix(t)) + 2
                          /\ err[1][Len(err[1])] = "\n"
                          /\ ~Wrote(t)
                reported == /\ Len(out) = 1 /\ err = <<>>
                            /\ ~loc[t].shouldSave /\ fsops[t] = <<>>
                persisted == /\ Len(out) = 1 /\ err = <<>>
                             /\ loc[t].shouldSave /\ Wrote(t)
            IN  /\ Len(out) + Len(err) <= 1
                /\ silent \/ failed \/ reported \/ persisted
                /\ silent <=> RejectedLine(loc[t].rawURL)

\* a task has ended at the creation of the directory, with the one diagnostic
\* "failed to create dir: ..." and no summary
C14_Witness ==
    \E t \in Tasks :
        /\ pc[t] = "done"
        /\ stdout[t] = <<>>
        /\ Len(stderr[t]) = 1
        /\ HasPrefix(stderr[t][1], <<"f", "a", "i", "l", "e", "d", " ", "t", "o", " ",
                                        "c", "r", "e", "a", "t", "e", " ", "d", "i", "r",
                                        ":", " ">>)
        /\ Len(fsops[t]) = 1

\* C15: a task creates the directory, then writes the file, then prints the
\* summary "<path>: <rawURL> <status>": its filesystem calls are MkdirAll and
\* then, only after MkdirAll succeeded, WriteFile of the path; a task whose
\* decision is to save prints its summary only when WriteFile succeeded, so the
\* path the summary names holds the artifact that task wrote
C15_PersistOrder ==
    \A t \in Tasks :
        LET ops == fsops[t]
        IN  /\ Len(ops) <= 2
            /\ Len(ops) >= 1 => ops[1].op = "MkdirAll"
            /\ Len(ops) = 2 => /\ ops[2].op = "WriteFile"
                               /\ ops[1].ok /\ ops[1].path \in dirs
                               /\ ops[2].path = loc[t].p
            /\ (Len(ops) >= 1 /\ ~ops[1].ok) => Len(ops) = 1 /\ loc[t].buf = <<>>
            /\ (loc[t].shouldSave /\ ~Wrote(t)) => stdout[t] = <<>>
            /\ (loc[t].shouldSave /\ stdout[t] # <<>>)
               => /\ stdout[t] = <<loc[t].p \o <<":", " ">> \o loc[t].rawURL \o <<" ">>
                                     \o CodeDigits(loc[t].resp.StatusCode) \o <<"\n">>>>
                  /\ loc[t].p \in DOMAIN files
                  /\ files[loc[t].p] = loc[t].buf
            /\ \A f \in DOMAIN files : Wrote(t) /\ f = loc[t].p

\* a task has created the directory, written the file and printed the summary
C15_Witness ==
    \E t \in Tasks :
        /\ Len(fsops[t]) = 2 /\ fsops[t][1].ok /\ fsops[t][2].ok
        /\ fsops[t][1].path \in dirs
        /\ loc[t].p \in DOMAIN files
        /\ Len(stdout[t]) = 1 /\ HasPrefix(stdout[t][1], loc[t].p \o <<":", " ">>)

\* the tasks that are launched and short of their terminal state
InFlight == {t \in Tasks : pc[t] \notin {"unborn", "done"}}

\* C16: the dispatch loop is not gated on the tasks: while main is in the loop
\* (reading a line, registering, pausing, launching) its next step can be taken
\* whatever the tasks launched before are doing, and it launches a task only
\* after the pause
C16_NotGated ==
    /\ mainpc \in {"scan", "add", "sleep", "go"} => ENABLED (Scan \/ WgAdd \/ Sleep \/ Go)
    /\ \A t \in Tasks : (t = scanned /\ mainpc \in {"add", "sleep"}) => pc[t] = "unborn"

\* the tasks of all the lines of an input of MaxLines lines are in flight at once
C16_Witness ==
    /\ Len(lines) = MaxLines
    /\ InFlight = Tasks
    /\ mainpc = "wait"

\* C17: the request a task sends carries every configured header string
\* "Name: Value", duplicates of a name included and in the order of the
\* configuration: the request has as many header values as there are configured
\* strings, string j is the name and the value of one of them, and the strings of
\* one name keep their order among the values of that name
C17_HeadersSent ==
    \A t \in Tasks : \A i \in 1..Len(sent[t]) :
        LET hdr == sent[t][i].Header
            hv == HeaderValues(hdr)
            Text(x) == hdr[x[1]].k \o <<":">> \o hdr[x[1]].vs[x[2]]
        IN  /\ Cardinality(hv) = Len(cfg.headers)
            /\ \E f \in [1..Len(cfg.headers) -> hv] :
                 /\ \A j, k \in 1..Len(cfg.headers) : f[j] = f[k] => j = k
                 /\ \A j \in 1..Len(cfg.headers) : Text(f[j]) = cfg.headers[j]
                 /\ \A j, k \in 1..Len(cfg.headers) :
                      (j < k /\ f[j][1] = f[k][1]) => f[j][2] < f[k][2]

\* C18: the directory a task creates and the file it writes lie inside
\* <outputDir>/<hostname>/, and so inside the output directory, whatever the
\* path of the URL is
C18_Contained ==
    \A t \in Tasks : \A i \in 1..Len(fsops[t]) :
        LET base == cfg.outputDir \o <<"/">> \o Hostname(loc[t].req.URL)
            path == fsops[t][i].path
        IN  /\ HasPrefix(path, cfg.outputDir \o <<"/">>)
            /\ path = base \/ HasPrefix(path, base \o <<"/">>)

====
